---- MODULE Spec2Model ----
(***************************************************************************)
(* Model of shopping_list.js: a basket of SKUs is folded into a bill (a    *)
(* Map from SKU to BillItem), each bill line is priced with its multi-buy  *)
(* discount, and the line prices are summed into the total.                *)
(*                                                                         *)
(* A JavaScript Map is modelled as the sequence of its <<key, value>>      *)
(* entries in insertion order.  An object is modelled as a record of its   *)
(* fields.                                                                 *)
(***************************************************************************)
EXTENDS Integers, Sequences, FiniteSets

VARIABLES
  stockList,       \* the Map of stock items (line 82)
  discountedSkus,  \* the Map of discount rules (line 121)
  basket,          \* the current shopping basket (line 117)
  pc,              \* position inside displayScreen
  run,             \* which run of displayScreen this is
  i,               \* index of basket.reduce (line 238)
  acc,             \* the bill Map accumulated by basket.reduce
  billArray,       \* Array.from(billMap.values()) (line 234)
  j,               \* index of billArray.reduce (line 231)
  total,           \* accumulator of billArray.reduce (line 231)
  first,           \* what the first run of displayScreen produced
  lk,              \* one call of genericMapGet / readItem / readDiscount
  pr               \* one call of calcDiscount

vars == <<stockList, discountedSkus, basket, pc, run, i, acc, billArray, j,
          total, first, lk, pr>>

\* ---------------------------------------------------------------- bounds
MaxLen == 4        \* longest basket
MaxQty == 6        \* largest quantity of one SKU (single-SKU baskets, calcDiscount)
MaxThreshold == 4  \* largest discount threshold drawn for calcDiscount
MaxAmount == 2     \* largest |discount amount| drawn for calcDiscount
MaxCatLen == 3     \* longest basket folded against a drawn stock list
MaxEntries == 2    \* most entries of a Map drawn for genericMapGet

\* ---------------------------------------------------------------- objects
Item(desc, unitPrice) == [desc |-> desc, unitPrice |-> unitPrice]

Discount(qty, amount) == [qty |-> qty, amount |-> amount]

UNKNOWN_SKU_TXT == "Unknown SKU"
UNKNOWN_SKU == Item(UNKNOWN_SKU_TXT, 0)
NO_DISCOUNT == Discount(1, 0)

\* The value Map.prototype.get returns for a key the Map does not hold.
undefined == [undefined |-> TRUE]

\* ---------------------------------------------------------------- Map
\* Mutant of NewMap: the accumulator of the previous fold is used again.
StaleMap == acc

\* new Map()
NewMap == <<>>

MapHas(m, k) == \E n \in 1..Len(m) : m[n][1] = k

MapIndex(m, k) == CHOOSE n \in 1..Len(m) : m[n][1] = k

MapGet(m, k) == IF MapHas(m, k) THEN m[MapIndex(m, k)][2] ELSE undefined

\* Mutant of MapSet: the entry of a key the Map holds is removed and added
\* again at the end.
MapSetMoveToEnd(m, k, v) ==
  Append(SelectSeq(m, LAMBDA e : e[1] # k), <<k, v>>)

\* set() on a key the Map holds replaces its value in place; on a new key it
\* appends the entry.
MapSet(m, k, v) ==
  IF MapHas(m, k) THEN [m EXCEPT ![MapIndex(m, k)] = <<k, v>>]
  ELSE Append(m, <<k, v>>)

MapValues(m) == [n \in 1..Len(m) |-> m[n][2]]

MapKeys(m) == [n \in 1..Len(m) |-> m[n][1]]

\* ---------------------------------------------------------------- data
ShippedStockList == <<
   <<670,  Item("Apples (pack of 5)", 194)>>
  ,<<5243, Item("Bananas (1kg)", 268)>>
  ,<<3317, Item("Oranges (pack of 5)", 150)>>
  ,<<5712, Item("Pineapple", 259)>>
  ,<<8903, Item("Mango", 75)>>
  ,<<643,  Item("Potatoes (2.5kg)", 198)>>
  ,<<57,   Item("Tomatoes (1kg)", 199)>>
  ,<<56,   Item("Onions (pack of 4)", 83)>>
  ,<<1094, Item("Lettuce", 49)>>
  ,<<2275, Item("Rice (1kg)", 148)>>
  ,<<6034, Item("Pasta (1kg)", 120)>>
  ,<<5907, Item("Bread (800g loaf)", 145)>>
  ,<<3111, Item("Pizza (350g)", 260)>>
  ,<<554,  Item("Beef Mince (500g)", 199)>>
  ,<<1373, Item("Chicken Breast (pack of 2)", 300)>>
  ,<<6564, Item("Salmon Fillets (pack of 2)", 323)>>
  ,<<7102, Item("Pasta Sauce (500g jar)", 184)>>
  ,<<5079, Item("Curry Sauce (500g jar)", 184)>>
  ,<<6386, Item("Cheese (250g)", 174)>>
  ,<<347,  Item("Butter (250g)", 152)>>
  ,<<1019, Item("Plain Yoghurt (500g)", 94)>>
  ,<<9190, Item("Milk (568ml / 1 pint)", 68)>>
  ,<<6487, Item("Milk (2.27L / 4 pints)", 219)>>
  ,<<4705, Item("Fresh Orange Juice (1L)", 169)>>
  ,<<3263, Item("Cola (2L)", 99)>>
  ,<<6469, Item("Beer (pack of 4 bottles)", 400)>>
  ,<<5671, Item("Red wine (70cl bottle)", 750)>>
  ,<<4719, Item("Fish Fingers (500g)", 335)>>
  ,<<5643, Item("Soap Powder", 500)>>
  ,<<1234, Item("Dry Sherry, 1lt", 1010)>>
>>

\* Mutant of ShippedDiscountedSkus: a discount larger than the price of the
\* units that earn it.
OversizedDiscountedSkus == <<
   <<1234, Discount(2, 2500)>>
  ,<<5671, Discount(2, 125)>>
  ,<<7102, Discount(3, 50)>>
>>

ShippedDiscountedSkus == <<
   <<1234, Discount(2, 250)>>
  ,<<5671, Discount(2, 125)>>
  ,<<7102, Discount(3, 50)>>
>>

\* ---------------------------------------------------------------- lookup
\* Mutant of genericMapGet: the result of get() is returned as it is.
genericMapGetRaw(someMap, notThereValue, theThing) == MapGet(someMap, theThing)

genericMapGet(someMap, notThereValue, theThing) ==
  LET v == MapGet(someMap, theThing)
  IN  IF v = undefined THEN notThereValue ELSE v

readItem(sku) == genericMapGet(stockList, UNKNOWN_SKU, sku)

readDiscount(sku) == genericMapGet(discountedSkus, NO_DISCOUNT, sku)

\* ---------------------------------------------------------------- pricing
\* Math.floor(a / b) of two non-negative integers, b >= 1: the quotient is
\* far below 2^53, so the double division followed by floor is the integer
\* quotient.
\* Mutant of MathFloorDiv: Math.round in the place of Math.floor.
MathRoundDiv(a, b) == (2 * a + b) \div (2 * b)

MathFloorDiv(a, b) == a \div b

calcDiscount(itemQty, discountQty, discountAmt) ==
  MathFloorDiv(itemQty, discountQty) * discountAmt

\* Mutant of calcAmount: the discount is added.
calcAmountAdd(itemQty, unitPrice, discount) == (itemQty * unitPrice) + discount

calcAmount(itemQty, unitPrice, discount) == (itemQty * unitPrice) - discount

calcPrice(qty, unitPrice, discount) ==
  LET disc == calcDiscount(qty, discount.qty, discount.amount)
  IN  calcAmount(qty, unitPrice, disc)

BillItem(qty, item, discount) == [qty |-> qty, item |-> item, discount |-> discount]

\* BillItem.price()
price(billItem) == calcPrice(billItem.qty, billItem.item.unitPrice, billItem.discount)

\* ---------------------------------------------------------------- bill
\* Mutant of updateQty: the quantity on the bill is forgotten.
updateQtyReset(bill, sku) == 1

\* Mutant of updateQty: only the newest bill line is looked at.
updateQtyNewest(bill, sku) ==
  1 + (IF Len(bill) > 0 /\ bill[Len(bill)][1] = sku
       THEN bill[Len(bill)][2].qty ELSE 0)

updateQty(bill, sku) ==
  LET billItem == MapGet(bill, sku)
  IN  1 + (IF billItem = undefined THEN 0 ELSE billItem.qty)

\* Mutant of addItemToBill: the unknown-SKU test is missing.
addItemToBillAlways(a, sku) ==
  MapSet(a, sku, BillItem(updateQty(a, sku), readItem(sku), readDiscount(sku)))

addItemToBill(a, sku) ==
  LET newQty   == updateQty(a, sku)
      item     == readItem(sku)
      discount == readDiscount(sku)
  IN  IF item.desc = UNKNOWN_SKU_TXT THEN a
      ELSE MapSet(a, sku, BillItem(newQty, item, discount))

\* basket.reduce(addItemToBill, a), as a whole.
RECURSIVE reduceBasket(_, _)
reduceBasket(b, a) ==
  IF b = <<>> THEN a ELSE reduceBasket(Tail(b), addItemToBill(a, Head(b)))

\* billArray.reduce((acc, item) => acc + item.price(), t), as a whole.
RECURSIVE reduceBill(_, _)
reduceBill(arr, t) ==
  IF arr = <<>> THEN t ELSE reduceBill(Tail(arr), t + price(Head(arr)))

\* ---------------------------------------------------------------- inputs
\* SKUs the baskets are built from: one without a discount rule, two with
\* one, and one that is not in the shipped stock list.
BasketSkus == {670, 1234, 7102, 9999}

\* All sequences over S of length at most n.
BoundedSeq(S, n) == UNION {[1..m -> S] : m \in 0..n}

Repeat(s, n) == [m \in 1..n |-> s]

Range(f) == {f[n] : n \in DOMAIN f}

Count(b, s) == Cardinality({n \in 1..Len(b) : b[n] = s})

\* The rearrangements of basket b (b itself among them).
Permutations(b) ==
  {p \in [1..Len(b) -> Range(b)] : \A s \in Range(b) : Count(p, s) = Count(b, s)}

\* Baskets folded against the shipped stock list: every basket over
\* BasketSkus up to MaxLen, and up to MaxQty units of any one shipped SKU.
Baskets ==
  BoundedSeq(BasketSkus, MaxLen)
    \cup {Repeat(s, n) : s \in Range(MapKeys(ShippedStockList)), n \in 1..MaxQty}

NoLookup == [pc |-> "off"]

NoPricing == [pc |-> "off"]

NoRun == [basket |-> <<>>, bill |-> <<>>, billArray |-> <<>>, total |-> 0]

\* ---------------------------------------------------------------- displayScreen
Init ==
  /\ stockList = ShippedStockList
  /\ discountedSkus = ShippedDiscountedSkus
  /\ basket \in Baskets
  /\ pc = "load"
  /\ run = 1
  /\ i = 1
  /\ acc = <<>>
  /\ billArray = <<>>
  /\ j = 1
  /\ total = 0
  /\ first = NoRun
  /\ lk = NoLookup
  /\ pr = NoPricing

\* The onLoad event: basket.reduce(addItemToBill, new Map()) starts.
DisplayScreen ==
  /\ pc = "load"
  /\ acc' = NewMap
  /\ i' = 1
  /\ pc' = "fold"
  /\ UNCHANGED <<stockList, discountedSkus, basket, run, billArray, j, total,
                 first, lk, pr>>

\* One callback of basket.reduce.
ReduceBasket ==
  /\ pc = "fold"
  /\ i <= Len(basket)
  /\ acc' = addItemToBill(acc, basket[i])
  /\ i' = i + 1
  /\ UNCHANGED <<stockList, discountedSkus, basket, pc, run, billArray, j,
                 total, first, lk, pr>>

\* Array.from(billMap.values()), and billArray.reduce(..., 0) starts.
BillMapToArray ==
  /\ pc = "fold"
  /\ i > Len(basket)
  /\ billArray' = MapValues(acc)
  /\ j' = 1
  /\ total' = 0
  /\ pc' = "total"
  /\ UNCHANGED <<stockList, discountedSkus, basket, run, i, acc, first, lk, pr>>

\* One callback of billArray.reduce.
ReduceBill ==
  /\ pc = "total"
  /\ j <= Len(billArray)
  /\ total' = total + price(billArray[j])
  /\ j' = j + 1
  /\ UNCHANGED <<stockList, discountedSkus, basket, pc, run, i, acc,
                 billArray, first, lk, pr>>

\* billAsHtmlTable("billDiv")(billArray)(total): the bill and the total are
\* handed to the rendering code.
ShowBill ==
  /\ pc = "total"
  /\ j > Len(billArray)
  /\ pc' = "done"
  /\ UNCHANGED <<stockList, discountedSkus, basket, run, i, acc, billArray,
                 j, total, first, lk, pr>>

\* The page is loaded a second time, the basket holding the same items in
\* any order.
Reload ==
  /\ pc = "done"
  /\ run = 1
  /\ first' = [basket |-> basket, bill |-> acc, billArray |-> billArray,
               total |-> total]
  /\ \E b \in Permutations(basket) : basket' = b
  /\ run' = 2
  /\ pc' = "load"
  /\ UNCHANGED <<stockList, discountedSkus, i, acc, billArray, j, total, lk, pr>>

Next ==
  \/ DisplayScreen
  \/ ReduceBasket
  \/ BillMapToArray
  \/ ReduceBill
  \/ ShowBill
  \/ Reload

Spec == Init /\ [][Next]_vars

\* ---------------------------------------------------------------- a drawn stock list
\* Keys and items of the drawn stock lists; key 3 is never a stock item.
CatKeys == {1, 2}

CatBasketSkus == {1, 2, 3}

CatItems == {Item("Mango", 75), Item(UNKNOWN_SKU_TXT, 50)}

\* The Maps with at most n entries, keys from K (each at most once) and
\* values from V.
Maps(K, V, n) ==
  {m \in BoundedSeq(K \X V, n) :
     \A a, b \in 1..Len(m) : a # b => m[a][1] # m[b][1]}

CatDiscounts == {<<>>, <<<<1, Discount(2, 25)>>>>, <<<<2, Discount(1, 10)>>>>}

InitCat ==
  /\ stockList \in Maps(CatKeys, CatItems, Cardinality(CatKeys))
  /\ discountedSkus \in CatDiscounts
  /\ basket \in BoundedSeq(CatBasketSkus, MaxCatLen)
  /\ pc = "load"
  /\ run = 1
  /\ i = 1
  /\ acc = <<>>
  /\ billArray = <<>>
  /\ j = 1
  /\ total = 0
  /\ first = NoRun
  /\ lk = NoLookup
  /\ pr = NoPricing

SpecCat == InitCat /\ [][Next]_vars

\* ---------------------------------------------------------------- calls of the lookups
LookupKeys == {1, 2, 3}

LookupValues == {Item("Mango", 75), UNKNOWN_SKU, Discount(2, 250)}

ReadKeys == Range(MapKeys(ShippedStockList)) \cup {0, 9999}

Lookups ==
  {[fn |-> "genericMapGet", someMap |-> m, notThereValue |-> d, theThing |-> k,
    pc |-> "call"] :
     m \in Maps(LookupKeys, LookupValues, MaxEntries), d \in LookupValues,
     k \in LookupKeys}
  \cup {[fn |-> f, theThing |-> k, pc |-> "call"] :
          f \in {"readItem", "readDiscount"}, k \in ReadKeys}

InitLookup ==
  /\ stockList = ShippedStockList
  /\ discountedSkus = ShippedDiscountedSkus
  /\ basket = <<>>
  /\ pc = "off"
  /\ run = 1
  /\ i = 1
  /\ acc = <<>>
  /\ billArray = <<>>
  /\ j = 1
  /\ total = 0
  /\ first = NoRun
  /\ lk \in Lookups
  /\ pr = NoPricing

GenericMapGetCall ==
  /\ lk.pc = "call"
  /\ lk.fn = "genericMapGet"
  /\ lk' = [fn |-> lk.fn, someMap |-> lk.someMap,
            notThereValue |-> lk.notThereValue, theThing |-> lk.theThing,
            out |-> genericMapGet(lk.someMap, lk.notThereValue, lk.theThing),
            pc |-> "ret"]
  /\ UNCHANGED <<stockList, discountedSkus, basket, pc, run, i, acc, billArray,
                 j, total, first, pr>>

ReadItemCall ==
  /\ lk.pc = "call"
  /\ lk.fn = "readItem"
  /\ lk' = [fn |-> lk.fn, theThing |-> lk.theThing, out |-> readItem(lk.theThing),
            pc |-> "ret"]
  /\ UNCHANGED <<stockList, discountedSkus, basket, pc, run, i, acc, billArray,
                 j, total, first, pr>>

ReadDiscountCall ==
  /\ lk.pc = "call"
  /\ lk.fn = "readDiscount"
  /\ lk' = [fn |-> lk.fn, theThing |-> lk.theThing,
            out |-> readDiscount(lk.theThing), pc |-> "ret"]
  /\ UNCHANGED <<stockList, discountedSkus, basket, pc, run, i, acc, billArray,
                 j, total, first, pr>>

NextLookup ==
  \/ GenericMapGetCall
  \/ ReadItemCall
  \/ ReadDiscountCall

SpecLookup == InitLookup /\ [][NextLookup]_vars

\* ---------------------------------------------------------------- calls of calcDiscount
InitDiscount ==
  /\ stockList = ShippedStockList
  /\ discountedSkus = ShippedDiscountedSkus
  /\ basket = <<>>
  /\ pc = "off"
  /\ run = 1
  /\ i = 1
  /\ acc = <<>>
  /\ billArray = <<>>
  /\ j = 1
  /\ total = 0
  /\ first = NoRun
  /\ lk = NoLookup
  /\ pr \in [itemQty : 0..MaxQty, discountQty : 1..MaxThreshold,
              discountAmt : (0 - MaxAmount)..MaxAmount, pc : {"call"}]

CalcDiscountCall ==
  /\ pr.pc = "call"
  /\ pr' = [itemQty |-> pr.itemQty, discountQty |-> pr.discountQty,
            discountAmt |-> pr.discountAmt,
            out |-> calcDiscount(pr.itemQty, pr.discountQty, pr.discountAmt),
            pc |-> "ret"]
  /\ UNCHANGED <<stockList, discountedSkus, basket, pc, run, i, acc, billArray,
                 j, total, first, lk>>

NextDiscount == CalcDiscountCall

SpecDiscount == InitDiscount /\ [][NextDiscount]_vars

\* ---------------------------------------------------------------- helpers of the properties
\* The part of the basket the fold has consumed.
Prefix == IF pc = "fold" THEN SubSeq(basket, 1, i - 1) ELSE basket

\* The fold of this run has started.
Folding == pc \in {"fold", "total", "done"}

Known(sku) == \E n \in 1..Len(stockList) : stockList[n][1] = sku

KnownOnly(b) == SelectSeq(b, Known)

Lines(bill, sku) == {n \in 1..Len(bill) : bill[n][1] = sku}

\* Index of the first occurrence of s in b.
FirstIndex(b, s) ==
  CHOOSE n \in 1..Len(b) : b[n] = s /\ \A m \in 1..(n - 1) : b[m] # s

\* qty * unitPrice - floor(qty / threshold) * amount, with floor(qty / threshold)
\* written as the largest n whose n thresholds fit into qty.
LineAmount(line) ==
  LET n == CHOOSE k \in 0..line.qty :
             /\ k * line.discount.qty <= line.qty
             /\ (k + 1) * line.discount.qty > line.qty
  IN  line.qty * line.item.unitPrice - n * line.discount.amount

SumLineAmounts[n \in Nat] ==
  IF n = 0 THEN 0 ELSE SumLineAmounts[n - 1] + LineAmount(billArray[n])

\* ---------------------------------------------------------------- C1
\* C1: after every prefix of the basket, every SKU of the stock list that
\* occurs in the prefix has exactly one bill line, whose qty is the number of
\* its occurrences in the prefix (and a SKU that does not occur has none).
AggregationConservation ==
  Folding =>
    \A s \in Range(MapKeys(stockList)) :
      LET c == Count(Prefix, s)
      IN  /\ Cardinality(Lines(acc, s)) = (IF c > 0 THEN 1 ELSE 0)
          /\ \A n \in Lines(acc, s) : acc[n][2].qty = c

AggregationConservationWitness ==
  /\ pc = "fold"
  /\ i <= Len(basket)
  /\ \E s \in Range(MapKeys(stockList)) :
       /\ Count(Prefix, s) = 2
       /\ \E n \in Lines(acc, s) : acc[n][2].qty = 2
  /\ \E s \in Range(Prefix) : Count(Prefix, s) = 1 /\ Lines(acc, s) # {}

\* ---------------------------------------------------------------- C2
\* C2: a fold step on a SKU that is not in the stock list leaves the bill
\* unchanged, and the finished bill and total are those of the basket without
\* its unknown SKUs; a basket of unknown SKUs only gives the empty bill and
\* the total 0.
UnknownSkuExclusion ==
  /\ [][(pc = "fold" /\ i <= Len(basket) /\ ~Known(basket[i])) => acc' = acc]_vars
  /\ [](pc = "done" =>
          /\ acc = reduceBasket(KnownOnly(basket), <<>>)
          /\ total = reduceBill(MapValues(reduceBasket(KnownOnly(basket), <<>>)), 0)
          /\ (KnownOnly(basket) = <<>> => acc = <<>> /\ total = 0))

UnknownSkuExclusionWitness ==
  /\ pc = "done"
  /\ Len(basket) >= 3
  /\ ~Known(basket[1])
  /\ Known(basket[2])
  /\ ~Known(basket[3])
  /\ Len(acc) = 1
  /\ total > 0

\* ---------------------------------------------------------------- C3
\* C3: calcDiscount(q)(t)(a) with q >= 0 and t >= 1 is n * a for the n and r
\* with q = t*n + r and 0 <= r < t; it is 0 when q < t.
DiscountThresholding ==
  pr.pc = "ret" =>
    /\ pr.itemQty < pr.discountQty => pr.out = 0
    /\ \A n \in 0..pr.itemQty : \A r \in 0..(pr.discountQty - 1) :
         pr.itemQty = pr.discountQty * n + r => pr.out = n * pr.discountAmt

DiscountThresholdingWitness ==
  /\ pr.pc = "ret"
  /\ pr.discountQty = 2
  /\ pr.itemQty = 5
  /\ pr.discountAmt = 2
  /\ pr.out = 4

\* ---------------------------------------------------------------- C4
\* C4: the total the reduce over the bill's lines computes is the sum over
\* the lines of qty*unitPrice - floor(qty/discount.qty)*discount.amount; a
\* SKU without a discount rule carries the rule (1, 0) and is charged
\* qty*unitPrice; the empty bill totals 0.
TotalCorrectness ==
  /\ pc = "total" => total = SumLineAmounts[j - 1]
  /\ pc = "done" =>
       /\ total = SumLineAmounts[Len(billArray)]
       /\ (billArray = <<>> => total = 0)
       /\ \A n \in 1..Len(acc) :
            /\ billArray[n] = acc[n][2]
            /\ ~(\E m \in 1..Len(discountedSkus) : discountedSkus[m][1] = acc[n][1]) =>
                 /\ acc[n][2].discount = [qty |-> 1, amount |-> 0]
                 /\ price(acc[n][2]) = acc[n][2].qty * acc[n][2].item.unitPrice

TotalCorrectnessWitness ==
  /\ pc = "done"
  /\ Len(billArray) >= 2
  /\ \E n \in 1..Len(billArray) :
       /\ billArray[n].discount.amount > 0
       /\ billArray[n].qty > billArray[n].discount.qty
  /\ \E n \in 1..Len(billArray) : billArray[n].discount.amount = 0
  /\ total > 0

\* ---------------------------------------------------------------- C5
\* C5: the bill of a rearranged basket has the same lines (SKU, quantity,
\* item, discount and price) and the same total as the bill of the basket.
OrderIndependence ==
  (run = 2 /\ pc = "done") =>
    /\ Range(acc) = Range(first.bill)
    /\ Len(acc) = Len(first.bill)
    /\ \A n \in 1..Len(acc) : \A m \in 1..Len(first.bill) :
         acc[n][1] = first.bill[m][1] => price(acc[n][2]) = price(first.bill[m][2])
    /\ total = first.total

OrderIndependenceWitness ==
  /\ run = 2
  /\ pc = "done"
  /\ basket # first.basket
  /\ MapKeys(acc) # MapKeys(first.bill)
  /\ \E n \in 1..Len(acc) : acc[n][2].qty >= 2

\* ---------------------------------------------------------------- C6
\* C6: genericMapGet returns the Map's value for a key the Map holds and the
\* fallback for any other key; readItem does so with the stock list and
\* UNKNOWN_SKU, readDiscount with the discount rules and NO_DISCOUNT.
LookupResult(m, d, k, out) ==
  /\ \A n \in 1..Len(m) : m[n][1] = k => out = m[n][2]
  /\ (\A n \in 1..Len(m) : m[n][1] # k) => out = d

CatalogLookup ==
  lk.pc = "ret" =>
    /\ lk.fn = "genericMapGet" =>
         LookupResult(lk.someMap, lk.notThereValue, lk.theThing, lk.out)
    /\ lk.fn = "readItem" =>
         LookupResult(stockList, [desc |-> "Unknown SKU", unitPrice |-> 0],
                      lk.theThing, lk.out)
    /\ lk.fn = "readDiscount" =>
         LookupResult(discountedSkus, [qty |-> 1, amount |-> 0], lk.theThing, lk.out)

CatalogLookupWitness ==
  /\ lk.pc = "ret"
  /\ lk.fn = "genericMapGet"
  /\ Len(lk.someMap) = 2
  /\ \A n \in 1..Len(lk.someMap) : lk.someMap[n][1] # lk.theThing
  /\ \A n \in 1..Len(lk.someMap) : lk.someMap[n][2] # lk.notThereValue
  /\ lk.out = lk.notThereValue

\* ---------------------------------------------------------------- C7
\* C7: folding the same basket a second time gives the same bill and total,
\* and no step of displayScreen changes the stock list, the discount rules or
\* the basket.
Idempotence ==
  /\ []((run = 2 /\ pc = "done" /\ basket = first.basket) =>
          /\ acc = first.bill
          /\ billArray = first.billArray
          /\ total = first.total)
  /\ [][pc # "done" => UNCHANGED <<stockList, discountedSkus, basket>>]_vars

IdempotenceWitness ==
  /\ run = 2
  /\ pc = "done"
  /\ basket = first.basket
  /\ Len(acc) >= 2
  /\ \E n \in 1..Len(acc) : acc[n][2].qty >= 2

\* ---------------------------------------------------------------- C8
\* C8: whatever the stock list holds, a SKU has a bill line exactly if it
\* occurs in the basket and is a key of the stock list.
BillMembership ==
  pc = "done" =>
    \A s \in Range(basket) \cup Range(MapKeys(stockList)) \cup Range(MapKeys(acc)) :
      Lines(acc, s) # {} <=> (s \in Range(basket) /\ Known(s))

\* ---------------------------------------------------------------- C9
\* C9: the bill's lines are in the order of the first occurrence of their
\* SKUs in the basket, a later occurrence of a SKU leaving the order as it is,
\* and the array that is totalled and displayed has the lines in that order.
BillOrder ==
  /\ Folding =>
       /\ Range(MapKeys(acc)) = {s \in Range(Prefix) : Known(s)}
       /\ \A a, b \in 1..Len(acc) :
            a < b => FirstIndex(Prefix, acc[a][1]) < FirstIndex(Prefix, acc[b][1])
  /\ pc \in {"total", "done"} =>
       /\ Len(billArray) = Len(acc)
       /\ \A n \in 1..Len(acc) : billArray[n] = acc[n][2]

BillOrderWitness ==
  /\ pc = "done"
  /\ Len(acc) = 2
  /\ Len(basket) >= 3
  /\ basket[1] = acc[1][1]
  /\ basket[2] = acc[2][1]
  /\ basket[3] = acc[1][1]
  /\ acc[1][2].qty >= 2

\* ---------------------------------------------------------------- C10
\* C10: with the shipped stock list and discount rules every threshold is at
\* least 1 and no discount exceeds the price of the units that earn it, so no
\* line price and no total is negative.
ShippedDiscountsBelowPrice ==
  /\ NO_DISCOUNT.qty >= 1
  /\ \A m \in 1..Len(discountedSkus) :
       /\ discountedSkus[m][2].qty >= 1
       /\ \A n \in 1..Len(stockList) :
            stockList[n][1] = discountedSkus[m][1] =>
              discountedSkus[m][2].amount
                <= discountedSkus[m][2].qty * stockList[n][2].unitPrice
  /\ \A n \in 1..Len(stockList) : stockList[n][2].unitPrice >= 0
  /\ Folding =>
       \A n \in 1..Len(acc) :
         /\ calcDiscount(acc[n][2].qty, acc[n][2].discount.qty,
                         acc[n][2].discount.amount)
              <= acc[n][2].qty * acc[n][2].item.unitPrice
         /\ price(acc[n][2]) >= 0
  /\ pc \in {"total", "done"} => total >= 0

ShippedDiscountsBelowPriceWitness ==
  /\ pc = "done"
  /\ Len(acc) = 1
  /\ acc[1][1] = 5671
  /\ acc[1][2].qty = MaxQty
  /\ total = MaxQty * 750 - (MaxQty \div 2) * 125

====
